---- MODULE Spec2Model ----
(***************************************************************************)
(* Model of dynamo.py: the S3-triggered PDF thumbnail pipeline             *)
(* (should_process_event, store_metadata, lambda_handler) together with    *)
(* the three stores it acts on: the S3 blob store, the FileMetadata table  *)
(* and the local /tmp directory.                                           *)
(*                                                                         *)
(* Strings that the code inspects (object keys, prefixes, paths) are       *)
(* sequences of character codes, so that lower(), endswith(), startswith(),*)
(* unquote_plus(), basename() and splitext() are computed as Python        *)
(* computes them.                                                          *)
(***************************************************************************)
EXTENDS Integers, Sequences, FiniteSets, TLC

(***************************************************************************)
(* Characters                                                              *)
(***************************************************************************)
Ord ==
  ("a" :> 97) @@ ("b" :> 98) @@ ("c" :> 99) @@ ("d" :> 100) @@ ("e" :> 101) @@
  ("f" :> 102) @@ ("g" :> 103) @@ ("h" :> 104) @@ ("i" :> 105) @@ ("l" :> 108) @@
  ("m" :> 109) @@ ("n" :> 110) @@ ("p" :> 112) @@ ("s" :> 115) @@ ("t" :> 116) @@
  ("u" :> 117) @@ ("x" :> 120) @@
  ("D" :> 68) @@ ("F" :> 70) @@ ("P" :> 80) @@ ("T" :> 84) @@ ("X" :> 88) @@
  ("2" :> 50) @@ ("4" :> 52) @@ ("7" :> 55) @@
  ("/" :> 47) @@ ("." :> 46) @@ ("%" :> 37) @@ ("+" :> 43) @@ (" " :> 32)

\* The string written as a tuple of one-character strings, as character codes.
K(s) == [i \in 1..Len(s) |-> Ord[s[i]]]

ReplacementChar == 65533   \* U+FFFD, what errors='replace' decodes a bad byte to

\* str.lower() on one character (ASCII letters; U+FFFD has no lower case).
LowerChar(c) == IF c \in 65..90 THEN c + 32 ELSE c
lower(s) == [i \in 1..Len(s) |-> LowerChar(s[i])]

endswith(s, suffix) ==
  /\ Len(suffix) <= Len(s)
  /\ SubSeq(s, Len(s) - Len(suffix) + 1, Len(s)) = suffix

startswith(s, prefix) ==
  /\ Len(prefix) <= Len(s)
  /\ SubSeq(s, 1, Len(prefix)) = prefix

IsHex(c) == c \in (48..57) \cup (65..70) \cup (97..102)
HexVal(c) == IF c \in 48..57 THEN c - 48
             ELSE IF c \in 65..70 THEN c - 55 ELSE c - 87

\* bytes.decode('utf-8', 'replace') of one escaped byte.  The keys of the
\* model hold no continuation bytes (%80..%BF), so a byte above 127 never
\* completes a multi-byte sequence and decodes to U+FFFD.
DecodeByte(b) == IF b < 128 THEN b ELSE ReplacementChar

\* urllib.parse.unquote: %XX with two hex digits becomes the byte, any other
\* '%' stays as it is.
RECURSIVE unquote(_)
unquote(s) ==
  IF s = <<>> THEN <<>>
  ELSE IF s[1] = 37 /\ Len(s) >= 3 /\ IsHex(s[2]) /\ IsHex(s[3])
       THEN <<DecodeByte(16 * HexVal(s[2]) + HexVal(s[3]))>>
              \o unquote(SubSeq(s, 4, Len(s)))
       ELSE <<s[1]>> \o unquote(Tail(s))

\* unquote_plus that leaves '+' as it is
unquote_plus_keeping_plus(s) == unquote(s)

\* urllib.parse.unquote_plus: '+' becomes ' ' first, then unquote.
unquote_plus(s) == unquote([i \in 1..Len(s) |-> IF s[i] = 43 THEN 32 ELSE s[i]])

\* Largest index of character c in s, 0 when there is none (str.rfind + 1).
rfind(s, c) ==
  IF \E i \in 1..Len(s) : s[i] = c
  THEN CHOOSE i \in 1..Len(s) : s[i] = c /\ \A j \in (i+1)..Len(s) : s[j] # c
  ELSE 0

\* os.path.basename (posixpath): what follows the last '/'.
basename(p) == SubSeq(p, rfind(p, 47) + 1, Len(p))

\* os.path.splitext(p)[0] (genericpath._splitext): the extension starts at the
\* last '.', unless only dots come before it in the file name.
splitext_root(p) ==
  LET sep == rfind(p, 47)
      dot == rfind(p, 46)
  IN IF dot > sep /\ \E i \in (sep+1)..(dot-1) : p[i] # 46
     THEN SubSeq(p, 1, dot - 1)
     ELSE p

(***************************************************************************)
(* Configuration, events and the initial contents of the blob store        *)
(***************************************************************************)
NumRuns == 2                 \* invocations of lambda_handler in a behaviour
Runs == 1..NumRuns

DefaultPrefix == K(<<"t","h","u","m","b","n","a","i","l","s","/">>)
Prefixes == {DefaultPrefix, K(<<"T","/">>), <<>>}

NoBucket == "none"           \* TARGET_BUCKET_NAME unset: os.environ.get gives None
SrcBucket == "uploads"
DstBucket == "thumbs"

DotPdf == K(<<".","p","d","f">>)
DotPng == K(<<".","p","n","g">>)
TmpDir == K(<<"/","t","m","p","/">>)

KeyAX  == K(<<"a","/","x",".","p","d","f">>)
KeyBX  == K(<<"b","/","x",".","p","d","f">>)
KeyAE  == K(<<"a","/","e",".","p","d","f">>)
KeyAC  == K(<<"a","/","c",".","p","d","f">>)
KeyTX  == K(<<"T","/","X",".","P","D","F">>)
KeyDot == K(<<"a","/",".","p","d","f">>)
KeyPng == K(<<"a","/","x",".","p","n","g">>)
KeyThX == K(<<"t","h","u","m","b","n","a","i","l","s","/","x",".","p","d","f">>)
\* percent-encoded spellings
KeyAXEnc == K(<<"a","%","2","F","x",".","p","d","f">>)   \* a/x.pdf
KeyTXEnc == K(<<"%","7","4","/","x",".","p","d","f">>)   \* t/x.pdf
KeyPlus  == K(<<"a","+","x",".","p","d","f">>)           \* "a x.pdf"

\* What an object, or a local file, holds.  fmt, pages and valid are what
\* fitz.open sees; of names the source object the bytes were made from and by
\* the run that wrote them (0: uploaded from outside).
Pdf(key, pages, valid) ==
  [fmt |-> "pdf", pages |-> pages, valid |-> valid,
   of |-> <<SrcBucket, key>>, by |-> 0]

Object(body, ctype) == [Body |-> body, ContentType |-> ctype]

\* The documents in the source bucket.  T/X.PDF, t/x.pdf, thumbnails/x.pdf and
\* "a x.pdf" are named by events but are not (or no longer) in the bucket.
InitialObjects ==
  (<<SrcBucket, KeyAX>>  :> Object(Pdf(KeyAX, 2, TRUE), "application/pdf")) @@
  (<<SrcBucket, KeyBX>>  :> Object(Pdf(KeyBX, 1, TRUE), "application/pdf")) @@
  (<<SrcBucket, KeyAE>>  :> Object(Pdf(KeyAE, 0, TRUE), "application/pdf")) @@
  (<<SrcBucket, KeyAC>>  :> Object(Pdf(KeyAC, 1, FALSE), "application/pdf")) @@
  (<<SrcBucket, KeyDot>> :> Object(Pdf(KeyDot, 1, TRUE), "application/pdf"))

\* An S3 notification.  shape is the wire shape ('Records' in event, or the
\* 'detail' shape); missing names the one field the event lacks, if any.
Event(shape, key, missing) ==
  [shape |-> shape, bucket |-> SrcBucket, key |-> key, size |-> 10240,
   missing |-> missing]

WellFormedEvents ==
  {Event("Records", k, "none") :
     k \in {KeyAXEnc, KeyAE, KeyAC, KeyTX, KeyTXEnc, KeyPng, KeyDot, KeyThX,
            KeyPlus}}
  \cup {Event("detail", k, "none") : k \in {KeyBX, KeyPng}}

MalformedEvents ==
  {Event("Records", KeyAX, m) : m \in {"bucket", "key", "size"}}
  \cup {Event("detail", KeyAX, "key"), Event("Records", KeyPng, "size")}

Events == WellFormedEvents \cup MalformedEvents

(***************************************************************************)
(* State                                                                   *)
(***************************************************************************)
VARIABLES
  THUMBNAIL_PREFIX,    \* module global, line 17
  TARGET_BUCKET_NAME,  \* module global, line 16
  s3,                  \* blob store: <<bucket, key>> -> object
  table,               \* FileMetadata: file_id -> item
  tmp,                 \* local files: path -> contents
  uuids,               \* how many identifiers uuid4 has handed out
  pc,                  \* per run: where lambda_handler stands
  event,               \* per run: the event it was invoked with
  loc,                 \* per run: its local variables
  result,              \* per run: what the invocation ended with
  trace,               \* per run: the external calls made, with their outcome
  notifying,           \* are the buckets wired to invoke the function?
  pending,             \* notifications not yet delivered
  uploads,             \* documents uploaded from outside so far
  snap                 \* per run: the stores as they were when it was invoked

vars == <<THUMBNAIL_PREFIX, TARGET_BUCKET_NAME, s3, table, tmp, uuids,
          pc, event, loc, result, trace, notifying, pending, uploads, snap>>

config == <<THUMBNAIL_PREFIX, TARGET_BUCKET_NAME, notifying, uploads>>
env == <<config, snap>>

NoEvent == Event("none", <<>>, "none")

NoLocals ==
  [bound |-> {}, source_bucket_name |-> "", source_object_key |-> <<>>,
   file_size |-> 0, file_id |-> 0, download_path |-> <<>>,
   pix |-> Pdf(<<>>, 0, FALSE), thumbnail_key |-> <<>>, target_bucket |-> "",
   e |-> ""]

TextBody(msg) ==
  [form |-> "text", message |-> msg, file_id |-> 0, thumbnail_path |-> <<>>]
DictBody(msg, id, key) ==
  [form |-> "dict", message |-> msg, file_id |-> id, thumbnail_path |-> key]

NoResult == [kind |-> "none", statusCode |-> 0, body |-> TextBody("")]
Return(code, body) == [kind |-> "return", statusCode |-> code, body |-> body]
Raised(exc) == [kind |-> "raise", statusCode |-> 0, body |-> TextBody(exc)]

\* f with x mapped to v (x added to the domain if it is new)
Put(f, x, v) == [y \in DOMAIN f \cup {x} |-> IF y = x THEN v ELSE f[y]]
\* f without x
Drop(f, x) == [y \in DOMAIN f \ {x} |-> f[y]]

Start ==
  /\ THUMBNAIL_PREFIX \in Prefixes
  /\ TARGET_BUCKET_NAME \in {NoBucket, DstBucket}
  /\ table = << >>
  /\ tmp = << >>
  /\ uuids = 0
  /\ pc = [r \in Runs |-> "idle"]
  /\ event = [r \in Runs |-> NoEvent]
  /\ loc = [r \in Runs |-> NoLocals]
  /\ result = [r \in Runs |-> NoResult]
  /\ trace = [r \in Runs |-> << >>]
  /\ pending = {}
  /\ uploads = 0
  /\ snap = [r \in Runs |-> [s3 |-> << >>, table |-> << >>, tmp |-> << >>]]

\* The function is invoked with events from outside; the store holds the
\* documents they name.
Init ==
  /\ Start
  /\ s3 = InitialObjects
  /\ notifying = FALSE

\* should_process_event with the prefix compared as configured, not lowercased
should_process_event_prefix_as_is(ev) ==
  LET key == unquote_plus(ev.key)
  IN /\ endswith(lower(key), DotPdf)
     /\ ~ startswith(lower(key), THUMBNAIL_PREFIX)

\* should_process_event with the negation around the whole test: only a PDF
\* under the prefix is turned away
should_process_event_negation_misplaced(ev) ==
  LET key == unquote_plus(ev.key)
  IN ~ (/\ endswith(lower(key), DotPdf)
        /\ startswith(lower(key), lower(THUMBNAIL_PREFIX)))

(***************************************************************************)
(* should_process_event, lines 20-29                                       *)
(***************************************************************************)
should_process_event(ev) ==
  LET key == unquote_plus(ev.key)
  IN /\ endswith(lower(key), DotPdf)
     /\ ~ startswith(lower(key), lower(THUMBNAIL_PREFIX))

\* f"s3://{bucket}/{key}"
Uri(bucket, key) == <<"s3://", bucket, "/", key>>

\* line 100 with the source key taken as it is
ThumbnailKey_source_key(source_object_key) == source_object_key

\* line 100 without os.path.basename: the key's directories are kept
ThumbnailKey_with_directories(source_object_key) ==
  THUMBNAIL_PREFIX \o splitext_root(source_object_key) \o DotPng

\* line 100
ThumbnailKey(source_object_key) ==
  THUMBNAIL_PREFIX \o splitext_root(basename(source_object_key)) \o DotPng

\* line 101
TargetBucket(source_bucket_name) ==
  IF TARGET_BUCKET_NAME # NoBucket THEN TARGET_BUCKET_NAME ELSE source_bucket_name

\* line 76
DownloadPath(source_object_key) == TmpDir \o basename(source_object_key)

(***************************************************************************)
(* lambda_handler, lines 50-139, one action per external call              *)
(***************************************************************************)
\* str(e) of the exception a failing call raises
ErrorOf(op) == CASE op = "download_file" -> "download_file failed"
                 [] op = "fitz.open"     -> "fitz.open failed"
                 [] op = "get_pixmap"    -> "get_pixmap failed"
                 [] op = "thumbnail"     -> "thumbnail failed"
                 [] op = "put_object"    -> "put_object failed"
                 [] op = "put_item"      -> "put_item failed"
                 [] op = "os.remove"     -> "os.remove failed"

Log(r, op, ok) == trace' = [trace EXCEPT ![r] = Append(@, <<op, ok>>)]

\* an exception raised inside the try block: control goes to line 129
Except(r, locals, exc) ==
  /\ pc' = [pc EXCEPT ![r] = "except"]
  /\ loc' = [loc EXCEPT ![r] = [locals EXCEPT !.e = exc]]

\* the invocation ends: the frame, and with it the locals, is gone
Finish(r, res) ==
  /\ pc' = [pc EXCEPT ![r] = "done"]
  /\ loc' = [loc EXCEPT ![r] = NoLocals]
  /\ result' = [result EXCEPT ![r] = res]

\* line 73, with the table's record count + 1 in place of a fresh identifier
uuid4_from_record_count == Cardinality(DOMAIN table) + 1

\* line 73: str(uuid.uuid4()), an identifier no earlier call has returned
uuid4 == uuids + 1

\* Lines 51-76: classify the event, parse it, draw the file_id and name the
\* download path.  Runs are numbered in the order they are invoked.
Begin(r, ev) ==
  /\ pc[r] = "idle"
  /\ \A q \in Runs : q < r => pc[q] # "idle"
  /\ snap' = [snap EXCEPT ![r] = [s3 |-> s3, table |-> table, tmp |-> tmp]]
  /\   /\ event' = [event EXCEPT ![r] = ev]
       /\ IF ev.missing = "key"
          THEN \* line 24/26: KeyError outside the try block
               /\ Finish(r, Raised("KeyError"))
               /\ UNCHANGED <<uuids, trace>>
          ELSE IF ~ should_process_event(ev)
          THEN \* line 56
               /\ Finish(r, Return(200, TextBody("Skipped non-PDF or thumbnail")))
               /\ UNCHANGED <<uuids, trace>>
          ELSE IF ev.missing = "bucket"
          THEN \* line 61/66: KeyError before any local is bound
               /\ Except(r, NoLocals, "KeyError")
               /\ UNCHANGED <<uuids, result, trace>>
          ELSE IF ev.missing = "size"
          THEN \* line 63/68
               /\ Except(r, [NoLocals EXCEPT
                              !.bound = {"source_bucket_name", "source_object_key"},
                              !.source_bucket_name = ev.bucket,
                              !.source_object_key = unquote_plus(ev.key)],
                         "KeyError")
               /\ UNCHANGED <<uuids, result, trace>>
          ELSE /\ uuids' = uuids + 1
               /\ loc' = [loc EXCEPT ![r] =
                    [NoLocals EXCEPT
                       !.bound = {"source_bucket_name", "source_object_key",
                                  "file_size", "file_id", "download_path"},
                       !.source_bucket_name = ev.bucket,
                       !.source_object_key = unquote_plus(ev.key),
                       !.file_size = ev.size,
                       !.file_id = uuid4,
                       !.download_path = DownloadPath(unquote_plus(ev.key))]]
               /\ pc' = [pc EXCEPT ![r] = "download"]
               /\ Log(r, "uuid4", TRUE)
               /\ UNCHANGED result
  /\ UNCHANGED <<config, s3, table, tmp>>

\* lambda_handler called with any event
Invoke(r) ==
  /\ ~ notifying
  /\ \E ev \in Events : Begin(r, ev)
  /\ UNCHANGED pending

\* Line 77: s3_client.download_file.  It writes the object to the path, or
\* raises and leaves the path as it was (the transfer goes through a
\* temporary file that is renamed when complete).
Download(r) ==
  /\ pc[r] = "download"
  /\ LET l == loc[r]
         obj == <<l.source_bucket_name, l.source_object_key>>
     IN \/ /\ obj \in DOMAIN s3
           /\ tmp' = Put(tmp, l.download_path, s3[obj].Body)
           /\ pc' = [pc EXCEPT ![r] = "render"]
           /\ Log(r, "download_file", TRUE)
           /\ UNCHANGED loc
        \/ /\ Except(r, l, ErrorOf("download_file"))
           /\ Log(r, "download_file", FALSE)
           /\ UNCHANGED tmp
  /\ UNCHANGED <<env, s3, table, uuids, event, result, pending>>

LogAll(r, calls) == trace' = [trace EXCEPT ![r] = @ \o calls]

\* What load_page(0).get_pixmap followed by Image.thumbnail and save make of
\* an opened document: a one-page PNG made from that document, by run r.
Thumbnail(r, body) ==
  [fmt |-> "png", pages |-> 1, valid |-> TRUE, of |-> body.of, by |-> r]

\* Lines 80-101: open the document, check the page count, render page 0,
\* close the document, resize, and name the thumbnail.
Render(r) ==
  /\ pc[r] = "render"
  /\ LET l == loc[r]
         readable == l.download_path \in DOMAIN tmp
                       /\ tmp[l.download_path].valid
     IN \/ \* line 80 raises: no such file, or not a document
           /\ ~ readable
           /\ Except(r, l, ErrorOf("fitz.open"))
           /\ LogAll(r, << <<"fitz.open", FALSE>> >>)
        \/ \* lines 81-82: no pages
           /\ readable
           /\ tmp[l.download_path].pages = 0
           /\ pc' = [pc EXCEPT ![r] = "remove_empty"]
           /\ LogAll(r, << <<"fitz.open", TRUE>>, <<"doc.close", TRUE>> >>)
           /\ UNCHANGED loc
        \/ \* line 86 or 87 raises; doc.close() on line 88 is not reached
           /\ readable
           /\ tmp[l.download_path].pages > 0
           /\ Except(r, l, ErrorOf("get_pixmap"))
           /\ LogAll(r, << <<"fitz.open", TRUE>>, <<"get_pixmap", FALSE>> >>)
        \/ \* one of lines 91-97 raises
           /\ readable
           /\ tmp[l.download_path].pages > 0
           /\ Except(r, l, ErrorOf("thumbnail"))
           /\ LogAll(r, << <<"fitz.open", TRUE>>, <<"get_pixmap", TRUE>>,
                           <<"doc.close", TRUE>>, <<"thumbnail", FALSE>> >>)
        \/ /\ readable
           /\ tmp[l.download_path].pages > 0
           /\ loc' = [loc EXCEPT ![r] =
                [l EXCEPT !.bound = @ \cup {"pix", "thumbnail_key", "target_bucket"},
                          !.pix = Thumbnail(r, tmp[l.download_path]),
                          !.thumbnail_key = ThumbnailKey(l.source_object_key),
                          !.target_bucket = TargetBucket(l.source_bucket_name)]]
           /\ pc' = [pc EXCEPT ![r] = "publish"]
           /\ LogAll(r, << <<"fitz.open", TRUE>>, <<"get_pixmap", TRUE>>,
                           <<"doc.close", TRUE>>, <<"thumbnail", TRUE>> >>)
  /\ UNCHANGED <<env, s3, table, tmp, uuids, event, result, pending>>

\* os.remove(path) succeeding: the file is there and is unlinked
RemoveOk(path) ==
  /\ path \in DOMAIN tmp
  /\ tmp' = Drop(tmp, path)

\* Lines 83-84: the empty-document exit
RemoveEmpty(r) ==
  /\ pc[r] = "remove_empty"
  /\ \/ /\ RemoveOk(loc[r].download_path)
        /\ Finish(r, Return(400, TextBody("PDF has no pages.")))
        /\ Log(r, "os.remove", TRUE)
     \/ /\ Except(r, loc[r], ErrorOf("os.remove"))
        /\ Log(r, "os.remove", FALSE)
        /\ UNCHANGED <<tmp, result>>
  /\ UNCHANGED <<env, s3, table, uuids, event, pending>>

\* The key as a notification spells it: ' ' as '+', and '+' and '%' escaped
RECURSIVE quote_plus(_)
quote_plus(k) ==
  IF k = <<>> THEN <<>>
  ELSE (CASE k[1] = 32 -> <<43>>
          [] k[1] = 43 -> <<37, 50, 66>>
          [] k[1] = 37 -> <<37, 50, 53>>
          [] OTHER -> <<k[1]>>) \o quote_plus(Tail(k))

\* An object written to a bucket that is wired to the function leaves a
\* notification naming it.
Notify(bucket, key) ==
  pending' = IF notifying
             THEN pending \cup {[Event("Records", quote_plus(key), "none")
                                   EXCEPT !.bucket = bucket]}
             ELSE pending

\* put_object that leaves an object that is already there as it is
put_object_keeping_existing(bucket, key, body, ctype) ==
  /\ s3' = IF <<bucket, key>> \in DOMAIN s3 THEN s3
           ELSE Put(s3, <<bucket, key>>, Object(body, ctype))
  /\ Notify(bucket, key)

\* s3_client.put_object: create or overwrite the object at <<bucket, key>>
put_object(bucket, key, body, ctype) ==
  /\ s3' = Put(s3, <<bucket, key>>, Object(body, ctype))
  /\ Notify(bucket, key)

\* Publish that logs a failure of put_object and carries on to the record
Publish_failure_swallowed(r) ==
  /\ pc[r] = "publish"
  /\ LET l == loc[r]
     IN \/ /\ put_object(l.target_bucket, l.thumbnail_key, l.pix, "image/png")
           /\ Log(r, "put_object", TRUE)
        \/ /\ Log(r, "put_object", FALSE)
           /\ UNCHANGED <<s3, pending>>
  /\ pc' = [pc EXCEPT ![r] = "record"]
  /\ UNCHANGED <<env, loc, table, tmp, uuids, event, result>>

\* Lines 103-108
Publish(r) ==
  /\ pc[r] = "publish"
  /\ LET l == loc[r]
     IN \/ /\ put_object(l.target_bucket, l.thumbnail_key, l.pix, "image/png")
           /\ pc' = [pc EXCEPT ![r] = "record"]
           /\ Log(r, "put_object", TRUE)
           /\ UNCHANGED loc
        \/ /\ Except(r, l, ErrorOf("put_object"))
           /\ Log(r, "put_object", FALSE)
           /\ UNCHANGED <<s3, pending>>
  /\ UNCHANGED <<env, table, tmp, uuids, event, result>>

\* Lines 34-45: table.put_item writes the item under its key file_id (the
\* two timestamps, datetime.now(), are left out)
store_metadata(file_id, original_file, thumbnail_path, file_size) ==
  table' = Put(table, file_id,
               [file_id |-> file_id, original_file |-> original_file,
                thumbnail_path |-> thumbnail_path, file_size |-> file_size,
                file_type |-> "pdf"])

\* Lines 111-116; store_metadata logs and re-raises what put_item raises
Record(r) ==
  /\ pc[r] = "record"
  /\ LET l == loc[r]
     IN \/ /\ store_metadata(l.file_id,
                             Uri(l.source_bucket_name, l.source_object_key),
                             Uri(l.target_bucket, l.thumbnail_key),
                             l.file_size)
           /\ pc' = [pc EXCEPT ![r] = "cleanup"]
           /\ Log(r, "put_item", TRUE)
           /\ UNCHANGED loc
        \/ /\ Except(r, l, ErrorOf("put_item"))
           /\ Log(r, "put_item", FALSE)
           /\ UNCHANGED table
  /\ UNCHANGED <<env, s3, tmp, uuids, event, result, pending>>

\* Lines 119-127
Cleanup(r) ==
  /\ pc[r] = "cleanup"
  /\ LET l == loc[r]
     IN \/ /\ RemoveOk(l.download_path)
           /\ Finish(r, Return(200, DictBody("Successfully processed PDF",
                                             l.file_id, l.thumbnail_key)))
           /\ Log(r, "os.remove", TRUE)
        \/ /\ Except(r, l, ErrorOf("os.remove"))
           /\ Log(r, "os.remove", FALSE)
           /\ UNCHANGED <<tmp, result>>
  /\ UNCHANGED <<env, s3, table, uuids, event, pending>>

\* a handler that starts the run over when a download path has been named
Handler_retrying(r) ==
  /\ pc[r] = "except"
  /\ IF "download_path" \in loc[r].bound
     THEN /\ pc' = [pc EXCEPT ![r] = "download"]
          /\ UNCHANGED <<loc, result>>
     ELSE Finish(r, Return(500, TextBody(loc[r].e)))
  /\ UNCHANGED <<env, s3, table, tmp, uuids, event, pending, trace>>

\* the handler without its cleanup: it returns the error at once
Handler_without_cleanup(r) ==
  /\ pc[r] = "except"
  /\ Finish(r, Return(500, TextBody(loc[r].e)))
  /\ UNCHANGED <<env, s3, table, tmp, uuids, event, pending, trace>>

\* Lines 129-131 and 136-139: the handler; with nothing to delete it returns
Handler(r) ==
  /\ pc[r] = "except"
  /\ LET l == loc[r]
     IN IF "download_path" \in l.bound /\ l.download_path \in DOMAIN tmp
        THEN /\ pc' = [pc EXCEPT ![r] = "except_remove"]
             /\ Log(r, "os.path.exists", TRUE)
             /\ UNCHANGED <<loc, result>>
        ELSE /\ Finish(r, Return(500, TextBody(l.e)))
             /\ UNCHANGED trace
  /\ UNCHANGED <<env, s3, table, tmp, uuids, event, pending>>

\* Lines 132-139.  When os.remove raises, the inner "except Exception as e"
\* rebinds e and unbinds it on leaving, so str(e) on line 138 raises
\* UnboundLocalError out of the handler.
HandlerRemove(r) ==
  /\ pc[r] = "except_remove"
  /\ \/ /\ RemoveOk(loc[r].download_path)
        /\ Finish(r, Return(500, TextBody(loc[r].e)))
        /\ Log(r, "os.remove", TRUE)
     \/ /\ Finish(r, Raised("UnboundLocalError"))
        /\ Log(r, "os.remove", FALSE)
        /\ UNCHANGED tmp
  /\ UNCHANGED <<env, s3, table, uuids, event, pending>>

Alone(r) == \A q \in Runs \ {r} : pc[q] \in {"idle", "done"}

\* One invocation at a time: an execution environment runs its invocations
\* one after the other, and /tmp lives on between them.
Next ==
  \/ \E r \in Runs : Alone(r) /\ Invoke(r)
  \/ \E r \in Runs : Alone(r) /\ Download(r)
  \/ \E r \in Runs : Alone(r) /\ Render(r)
  \/ \E r \in Runs : Alone(r) /\ RemoveEmpty(r)
  \/ \E r \in Runs : Alone(r) /\ Publish(r)
  \/ \E r \in Runs : Alone(r) /\ Record(r)
  \/ \E r \in Runs : Alone(r) /\ Cleanup(r)
  \/ \E r \in Runs : Alone(r) /\ Handler(r)
  \/ \E r \in Runs : Alone(r) /\ HandlerRemove(r)
Spec == Init /\ [][Next]_vars

\* The steps of run r after its invocation
Step(r) ==
  \/ Download(r)
  \/ Render(r)
  \/ RemoveEmpty(r)
  \/ Publish(r)
  \/ Record(r)
  \/ Cleanup(r)
  \/ Handler(r)
  \/ HandlerRemove(r)

\* Invocations interleaved at every external call.
NextConc == \E r \in Runs : Invoke(r) \/ Step(r)
SpecConc == Init /\ [][NextConc]_vars

(***************************************************************************)
(* The function wired to its own buckets: every object written, by an      *)
(* upload or by the function, is notified and the notification invokes it. *)
(***************************************************************************)
UploadKeys == {KeyAX, KeyAE, KeyAC, KeyPng, KeyThX, KeyTX, KeyDot,
               K(<<"a"," ","x",".","p","d","f">>)}

InitLoop ==
  /\ Start
  /\ s3 = << >>
  /\ notifying = TRUE

\* A document arrives in the source bucket (once)
Upload ==
  /\ notifying
  /\ uploads = 0
  /\ uploads' = 1
  /\ \E k \in UploadKeys, pages \in {0, 1}, valid \in BOOLEAN :
       /\ s3' = Put(s3, <<SrcBucket, k>>, Object(Pdf(k, pages, valid), "application/pdf"))
       /\ Notify(SrcBucket, k)
  /\ UNCHANGED <<THUMBNAIL_PREFIX, TARGET_BUCKET_NAME, notifying, table, tmp,
                 uuids, pc, event, loc, result, trace, snap>>

\* A pending notification invokes the function
Deliver(r) ==
  /\ notifying
  /\ \E ev \in pending :
       /\ Begin(r, ev)
       /\ pending' = pending \ {ev}

NextLoop ==
  \/ Upload
  \/ \E r \in Runs : Deliver(r) \/ Step(r)

\* Every notification is delivered and an invoked handler runs on.
SpecLoop == InitLoop /\ [][NextLoop]_vars /\ WF_vars(NextLoop)

(***************************************************************************)
(* Vocabulary of the properties                                            *)
(***************************************************************************)
Done(r) == pc[r] = "done"

\* run r has ended and no later invocation has begun
JustFinished(r) == Done(r) /\ \A q \in Runs : q > r => pc[q] = "idle"

Returned(r) == result[r].kind = "return"

\* how often run r made the call op with outcome ok
Calls(r, op, ok) ==
  Cardinality({i \in DOMAIN trace[r] : trace[r][i] = <<op, ok>>})
Did(r, op) == Calls(r, op, TRUE) > 0
Failed(r, op) == Calls(r, op, FALSE) > 0
Attempted(r, op) == Did(r, op) \/ Failed(r, op)

WellFormed(r) == event[r].missing = "none"
DecodedKey(r) == unquote_plus(event[r].key)
WorkPath(r) == TmpDir \o basename(DecodedKey(r))

\* the steps Fetch, Render, Thumbnail, Publish, Record
StepOps == {"download_file", "fitz.open", "get_pixmap", "thumbnail",
            "put_object", "put_item"}
StepFailed(r) == \E op \in StepOps : Failed(r, op)
FailedStep(r) == CHOOSE op \in StepOps : Failed(r, op)

\* the document was opened and had no page to render
EmptyRun(r) == Did(r, "fitz.open") /\ ~ Attempted(r, "get_pixmap")

Skipped(r) == Done(r) /\ trace[r] = << >> /\ Returned(r)

(***************************************************************************)
(* C1  Workspace cleanup                                                   *)
(***************************************************************************)
\* C1 as stated: a run that started its download and ended with a result
\* (200, 400 or 500) leaves no workspace file and deleted it exactly once.
C1_AsStated ==
  \A r \in Runs :
    JustFinished(r) /\ Returned(r) /\ Attempted(r, "download_file")
      => /\ WorkPath(r) \notin DOMAIN tmp
         /\ Calls(r, "os.remove", TRUE) = 1

\* C1 as amended: a run that started its download and ended with a result
\* leaves no workspace file; it deleted the file exactly once if its download
\* succeeded, and a run whose download failed deleted nothing unless its
\* handler found a file at the path (left by an earlier invocation), which it
\* deleted once.
C1_Cleanup ==
  \A r \in Runs :
    JustFinished(r) /\ Returned(r) /\ Attempted(r, "download_file")
      => /\ WorkPath(r) \notin DOMAIN tmp
         /\ Did(r, "download_file") => Calls(r, "os.remove", TRUE) = 1
         /\ ~ Did(r, "download_file") =>
              Calls(r, "os.remove", TRUE) = Calls(r, "os.path.exists", TRUE)
         /\ Calls(r, "os.remove", TRUE) + Calls(r, "os.remove", FALSE) <= 2

\* a run whose first deletion failed and whose handler then deleted the file
C1_Witness ==
  \E r \in Runs :
    /\ JustFinished(r) /\ Returned(r) /\ Did(r, "put_item")
    /\ Calls(r, "os.remove", FALSE) = 1
    /\ Calls(r, "os.remove", TRUE) = 1

(***************************************************************************)
(* C2  A failed deletion does not change the outcome                       *)
(***************************************************************************)
\* C2: whatever the deletion of the workspace does, a run whose steps all
\* succeeded returns 200, an empty-document run returns 400 and a run one of
\* whose steps failed returns 500 with that step's error message.
C2_OutcomeKept ==
  \A r \in Runs :
    Done(r) /\ Failed(r, "os.remove")
      => /\ Did(r, "put_item") =>
              Returned(r) /\ result[r].statusCode = 200
         /\ EmptyRun(r) =>
              result[r] = Return(400, TextBody("PDF has no pages."))
         /\ StepFailed(r) =>
              result[r] = Return(500, TextBody(ErrorOf(FailedStep(r))))

(***************************************************************************)
(* C3  The result of an invocation                                         *)
(***************************************************************************)
\* C3: an invocation on a well-formed event ends with exactly one result,
\* with status 200, 400 or 500: 200 iff the event was skipped or every step
\* through Record succeeded, 400 iff the downloaded document has no pages,
\* 500 with the failing step's message iff a step from Fetch to Record failed.
C3_Result ==
  \A r \in Runs :
    Done(r) /\ WellFormed(r)
      => /\ Returned(r)
         /\ result[r].statusCode \in {200, 400, 500}
         /\ result[r].statusCode = 200 <=>
              (~ should_process_event(event[r]) \/ Did(r, "put_item"))
         /\ result[r].statusCode = 400 <=> EmptyRun(r)
         /\ result[r].statusCode = 500 <=> StepFailed(r)
         /\ StepFailed(r) => result[r].body = TextBody(ErrorOf(FailedStep(r)))

(***************************************************************************)
(* C4  A record names a published thumbnail                                *)
(***************************************************************************)
\* the object a URI names
Named(uri) == <<uri[2], uri[4]>>

\* position of the first call op of run r with outcome ok; 0 if there is none
FirstCall(r, op, ok) ==
  IF Calls(r, op, ok) = 0 THEN 0
  ELSE CHOOSE i \in DOMAIN trace[r] :
         /\ trace[r][i] = <<op, ok>>
         /\ \A j \in 1..(i-1) : trace[r][j] # <<op, ok>>

\* C4: in every state of any interleaving of runs, every record's
\* thumbnail_path names an object that exists in the store, and a run calls
\* put_item only after its put_object has returned successfully.
C4_RecordAfterPublish ==
  /\ \A id \in DOMAIN table : Named(table[id].thumbnail_path) \in DOMAIN s3
  /\ \A r \in Runs :
       Attempted(r, "put_item")
         => /\ Did(r, "put_object")
            /\ \A i \in DOMAIN trace[r] :
                 trace[r][i][1] = "put_item" => FirstCall(r, "put_object", TRUE) < i

\* two runs, interleaved, have both written their record
C4_Witness ==
  /\ Cardinality(DOMAIN table) = 2
  /\ \E r \in Runs : pc[r] = "cleanup" /\ \E q \in Runs \ {r} : pc[q] = "cleanup"

(***************************************************************************)
(* C5  A run that fails up to Publish writes no record                     *)
(***************************************************************************)
\* C5: a run that fails at download, render, resize or publish leaves the
\* metadata table as it was before the run and ends with status 500.
C5_NoRecordOnFailure ==
  \A r \in Runs :
    /\ JustFinished(r)
    /\ \E op \in {"download_file", "fitz.open", "get_pixmap", "thumbnail",
                  "put_object"} : Failed(r, op)
    => /\ table = snap[r].table
       /\ Returned(r)
       /\ result[r].statusCode = 500

(***************************************************************************)
(* C6  A skipped event touches nothing                                     *)
(***************************************************************************)
\* C6: an event whose decoded key does not end with '.pdf' or begins with the
\* thumbnail prefix (both case-insensitive) is answered 200 'Skipped non-PDF
\* or thumbnail' with no external call made and the blob store, the table and
\* the local files left as they were.
C6_SkipTouchesNothing ==
  \A r \in Runs :
    /\ JustFinished(r)
    /\ event[r].missing # "key"
    /\ \/ ~ endswith(lower(DecodedKey(r)), DotPdf)
       \/ startswith(lower(DecodedKey(r)), lower(THUMBNAIL_PREFIX))
    => /\ result[r] = Return(200, TextBody("Skipped non-PDF or thumbnail"))
       /\ trace[r] = << >>
       /\ s3 = snap[r].s3
       /\ table = snap[r].table
       /\ tmp = snap[r].tmp

\* a skipped event whose key begins with the prefix only once it is decoded
\* and lowercased
C6_Witness ==
  \E r \in Runs :
    /\ JustFinished(r)
    /\ result[r] = Return(200, TextBody("Skipped non-PDF or thumbnail"))
    /\ endswith(lower(DecodedKey(r)), DotPdf)
    /\ ~ startswith(event[r].key, THUMBNAIL_PREFIX)
    /\ THUMBNAIL_PREFIX # << >>

(***************************************************************************)
(* C7  The empty document                                                  *)
(***************************************************************************)
\* C7: a run on a document with no pages returns 400 'PDF has no pages.',
\* leaves no workspace file, publishes no thumbnail and writes no record.
C7_EmptyDocument ==
  \A r \in Runs :
    JustFinished(r) /\ EmptyRun(r)
      => /\ result[r] = Return(400, TextBody("PDF has no pages."))
         /\ WorkPath(r) \notin DOMAIN tmp
         /\ s3 = snap[r].s3
         /\ table = snap[r].table

(***************************************************************************)
(* C9  A failed metadata write leaves the thumbnail                        *)
(***************************************************************************)
\* C9: when put_item fails after a successful publish, the thumbnail stays at
\* the derived key in the destination bucket, the run leaves no record, and it
\* returns 500.
C9_NoRollback ==
  \A r \in Runs :
    JustFinished(r) /\ Failed(r, "put_item")
      => /\ <<TargetBucket(event[r].bucket), ThumbnailKey(DecodedKey(r))>>
              \in DOMAIN s3
         /\ table = snap[r].table
         /\ Returned(r)
         /\ result[r].statusCode = 500

(***************************************************************************)
(* C10  The same source key processed twice                                *)
(***************************************************************************)
Succeeded(r) ==
  Done(r) /\ Returned(r) /\ result[r].statusCode = 200 /\ result[r].body.form = "dict"

Source(r) == <<event[r].bucket, DecodedKey(r)>>
Target(r) == <<TargetBucket(event[r].bucket), ThumbnailKey(DecodedKey(r))>>

\* the last of the runs that have written the object at <<bucket, key>>
\* (runs are numbered in the order they are invoked, one at a time)
LastWriter(obj) ==
  CHOOSE r \in Runs :
    /\ Did(r, "put_object") /\ Target(r) = obj
    /\ \A q \in Runs : Did(q, "put_object") /\ Target(q) = obj => q <= r

\* C10: two successful runs on the same bucket and key leave two records
\* under two distinct file_ids, as many records for that source as runs wrote
\* one, and one thumbnail object at the one derived key, holding what the
\* last write put there.
C10_Twice ==
  \A r1, r2 \in Runs :
    r1 < r2 /\ Succeeded(r1) /\ Succeeded(r2) /\ Source(r1) = Source(r2)
      => LET id1 == result[r1].body.file_id
             id2 == result[r2].body.file_id
             src == Uri(Source(r1)[1], Source(r1)[2])
         IN /\ id1 # id2
            /\ {id1, id2} \subseteq DOMAIN table
            /\ table[id1].original_file = src
            /\ table[id2].original_file = src
            /\ Cardinality({id \in DOMAIN table : table[id].original_file = src})
                 = Cardinality({q \in Runs : Did(q, "put_item") /\ Source(q) = Source(r1)})
            /\ table[id1].thumbnail_path = table[id2].thumbnail_path
            /\ Named(table[id1].thumbnail_path) = Target(r2)
            /\ Target(r2) \in DOMAIN s3
            /\ s3[Target(r2)].Body.by = LastWriter(Target(r2))
            /\ JustFinished(r2) => s3[Target(r2)].Body.by = r2

\* the same key processed by two runs, the second just finished
C10_Witness ==
  \E r1, r2 \in Runs :
    /\ r1 < r2 /\ Succeeded(r1) /\ Succeeded(r2) /\ Source(r1) = Source(r2)
    /\ JustFinished(r2)
    /\ Cardinality(DOMAIN table) = 2

(***************************************************************************)
(* C8  The function does not trigger itself                                *)
(***************************************************************************)
\* the successful put_object calls of all runs
Publishes ==
  Cardinality(UNION {{<<r, i>> : i \in {j \in DOMAIN trace[r] :
                                          trace[r][j] = <<"put_object", TRUE>>}} :
                     r \in Runs})

\* every object a run has written is one should_process_event turns away
PublishedKeysRejected ==
  \A obj \in DOMAIN s3 :
    s3[obj].Body.by # 0
      => ~ should_process_event(
             [Event("Records", quote_plus(obj[2]), "none") EXCEPT !.bucket = obj[1]])

Quiescent == pending = {} /\ \A r \in Runs : pc[r] \in {"idle", "done"}

\* C8: with every written object notified to the function, one uploaded
\* document leads to at most one publish, every published key is rejected by
\* should_process_event, and the system comes to rest with no notification
\* pending, whatever the prefix.
C8_NoSelfTrigger ==
  /\ [](Publishes <= 1 /\ PublishedKeysRejected)
  /\ <>[](uploads = 1 /\ Quiescent)

\* the thumbnail went to the source bucket, its notification was delivered
\* and turned away
C8_Witness ==
  /\ Quiescent
  /\ TARGET_BUCKET_NAME = NoBucket
  /\ \E r, q \in Runs :
       /\ Did(r, "put_object")
       /\ Skipped(q)
       /\ event[q].bucket = SrcBucket
       /\ unquote_plus(event[q].key) = ThumbnailKey(DecodedKey(r))

(***************************************************************************)
(* C11  Runs and their workspaces                                          *)
(***************************************************************************)
\* run r is between line 76 and its end: it has named its download path
Working(r) == "download_path" \in loc[r].bound

\* C11: in every interleaving, two runs at work on two different source
\* objects have two different download paths, and the pixmap a run has
\* rendered was rendered from the bytes of that run's own source object.
C11_OwnWorkspace ==
  /\ \A r, q \in Runs :
       r # q /\ Working(r) /\ Working(q) /\ Source(r) # Source(q)
         => loc[r].download_path # loc[q].download_path
  /\ \A r \in Runs : "pix" \in loc[r].bound => loc[r].pix.of = Source(r)

(***************************************************************************)
(* C12  One record per successful put_item                                 *)
(***************************************************************************)
\* C12: in every interleaving, the runs at work hold pairwise distinct
\* file_ids, a run about to call put_item holds a file_id no record has, a
\* run that has called it finds its own source under its file_id, and the
\* table has as many records as there are runs whose put_item succeeded.
C12_FreshRecord ==
  /\ \A r, q \in Runs :
       r # q /\ Working(r) /\ Working(q) => loc[r].file_id # loc[q].file_id
  /\ \A r \in Runs :
       /\ pc[r] = "record" => loc[r].file_id \notin DOMAIN table
       /\ pc[r] = "cleanup" =>
            /\ loc[r].file_id \in DOMAIN table
            /\ Named(table[loc[r].file_id].original_file) = Source(r)
  /\ Cardinality(DOMAIN table)
       = Cardinality({r \in Runs : Did(r, "put_item")})

\* two records, the later-invoked run has ended and the earlier-invoked run
\* has just written its record
C12_Witness ==
  /\ Cardinality(DOMAIN table) = 2
  /\ \E r, q \in Runs :
       r < q /\ pc[r] = "cleanup" /\ Succeeded(q)

(***************************************************************************)
(* C13  The result of a successful run                                     *)
(***************************************************************************)
\* a base name that ends with '.pdf' (in any case), less those four characters
WithoutPdf(b) == SubSeq(b, 1, Len(b) - 4)

\* the same, except that a base name with nothing but dots before 'pdf' is
\* kept whole (os.path.splitext finds no extension in such a name)
WithoutExtension(b) ==
  IF \A i \in 1..(Len(b) - 4) : b[i] = Ord["."] THEN b ELSE WithoutPdf(b)

\* run r returned 200 with the success message, the id of the one record it
\* added, and the thumbnail key prefix + name + '.png'; a PNG object is at
\* that key in the destination bucket, and the record names it and the source
SuccessOutcome(r, name) ==
  LET id == result[r].body.file_id
      key == THUMBNAIL_PREFIX \o name \o DotPng
      bucket == IF TARGET_BUCKET_NAME # NoBucket THEN TARGET_BUCKET_NAME
                ELSE event[r].bucket
  IN /\ result[r] = Return(200, DictBody("Successfully processed PDF", id, key))
     /\ id \notin DOMAIN snap[r].table
     /\ DOMAIN table = DOMAIN snap[r].table \cup {id}
     /\ table[id].file_id = id
     /\ <<bucket, key>> \in DOMAIN s3
     /\ s3[<<bucket, key>>].ContentType = "image/png"
     /\ table[id].thumbnail_path = <<"s3://", bucket, "/", key>>
     /\ table[id].original_file = <<"s3://", event[r].bucket, "/", DecodedKey(r)>>

\* C13 as stated: a successful run ends as SuccessOutcome says, the name in
\* the thumbnail key being the source base name less its '.pdf'.
C13_AsStated ==
  \A r \in Runs :
    JustFinished(r) /\ Succeeded(r)
      => SuccessOutcome(r, WithoutPdf(basename(DecodedKey(r))))

\* C13 as amended: a successful run ends as SuccessOutcome says, the name in
\* the thumbnail key being the source base name less its '.pdf', or the whole
\* base name when only dots precede 'pdf' in it.
C13_SuccessResult ==
  \A r \in Runs :
    JustFinished(r) /\ Succeeded(r)
      => SuccessOutcome(r, WithoutExtension(basename(DecodedKey(r))))

\* successful runs on a/.pdf and on a percent-encoded key, one with the
\* override bucket configured
C13_Witness ==
  /\ TARGET_BUCKET_NAME # NoBucket
  /\ \E r, q \in Runs :
       /\ Succeeded(r) /\ Succeeded(q) /\ JustFinished(q)
       /\ {event[r].key, event[q].key} = {KeyDot, KeyAXEnc}

(***************************************************************************)
(* C14  The source object is never written                                 *)
(***************************************************************************)
\* C14: a run that got as far as put_object called it at most once with
\* success, at a key that is not its source key; when the run has ended, every
\* object of the store other than the one at the thumbnail key is as it was
\* when the run began, the source object among them, and no object is gone.
C14_SourceUntouched ==
  \A r \in Runs :
    Attempted(r, "put_object")
      => /\ Calls(r, "put_object", TRUE) + Calls(r, "put_object", FALSE) = 1
         /\ Target(r)[2] # Source(r)[2]
         /\ Target(r) # Source(r)
         /\ JustFinished(r) =>
              /\ DOMAIN snap[r].s3 \subseteq DOMAIN s3
              /\ DOMAIN s3 \subseteq DOMAIN snap[r].s3 \cup {Target(r)}
              /\ \A obj \in DOMAIN snap[r].s3 \ {Target(r)} :
                   s3[obj] = snap[r].s3[obj]
              /\ Source(r) \in DOMAIN s3
              /\ s3[Source(r)] = snap[r].s3[Source(r)]
              /\ ~ Did(r, "put_object") => s3 = snap[r].s3

\* a run has published into its source bucket and ended
C14_Witness ==
  \E r \in Runs :
    /\ JustFinished(r) /\ Did(r, "put_object")
    /\ TARGET_BUCKET_NAME = NoBucket
    /\ Target(r)[1] = Source(r)[1]

(***************************************************************************)
(* C15  Events with a field missing                                        *)
(***************************************************************************)
\* the key of the event of run r, decoded, names a PDF outside the prefix
KeyEligible(r) ==
  /\ endswith(lower(DecodedKey(r)), DotPdf)
  /\ ~ startswith(lower(DecodedKey(r)), lower(THUMBNAIL_PREFIX))

\* run r made no external call and left the stores and the local files alone
NoEffect(r) ==
  /\ trace[r] = << >>
  /\ JustFinished(r) =>
       s3 = snap[r].s3 /\ table = snap[r].table /\ tmp = snap[r].tmp

\* C15 as stated: an invocation on an event with the bucket name, the key or
\* the size missing ends with a raised exception or a result other than 200,
\* and makes no download, put_object or put_item.
C15_AsStated ==
  \A r \in Runs :
    Done(r) /\ ~ WellFormed(r)
      => /\ ~ (Returned(r) /\ result[r].statusCode = 200)
         /\ NoEffect(r)

\* C15 as amended: an invocation on an event with a field missing makes no
\* external call; it raises KeyError when the key is missing, returns 500
\* when the bucket name or the size is missing and the key names a PDF outside
\* the prefix, and returns the 200 skip result when the bucket name or the
\* size is missing and the key is one the classifier turns away.
C15_MissingField ==
  \A r \in Runs :
    ~ WellFormed(r)
      => /\ NoEffect(r)
         /\ Done(r) =>
              /\ event[r].missing = "key" => result[r] = Raised("KeyError")
              /\ event[r].missing # "key" /\ KeyEligible(r)
                   => result[r] = Return(500, TextBody("KeyError"))
              /\ event[r].missing # "key" /\ ~ KeyEligible(r)
                   => result[r] = Return(200, TextBody("Skipped non-PDF or thumbnail"))

\* one invocation has ended with 500 on an event without its size, another
\* with a KeyError raised on an event without its key
C15_Witness ==
  \E r, q \in Runs :
    /\ Done(r) /\ event[r].missing = "size" /\ Returned(r)
    /\ result[r].statusCode = 500
    /\ Done(q) /\ event[q].missing = "key" /\ result[q].kind = "raise"

(***************************************************************************)
(* C16  One decoded key for the test and for the names                     *)
(***************************************************************************)
\* the keys of the events above, percent-decoded by hand
Decoded(k) ==
  CASE k = KeyAXEnc -> KeyAX
    [] k = KeyTXEnc -> K(<<"t","/","x",".","p","d","f">>)
    [] k = KeyPlus  -> K(<<"a"," ","x",".","p","d","f">>)
    [] OTHER        -> k

\* C16: for an event of either shape that has its key, should_process_event
\* is true iff the decoded key, lowercased, ends with '.pdf' and does not
\* begin with the lowercased prefix, and the invocation is skipped iff it is
\* false; source_object_key is the decoded key, the download path is /tmp/ +
\* its base name and the thumbnail key is derived from that same base name.
C16_DecodedKey ==
  \A r \in Runs :
    pc[r] # "idle" /\ event[r].missing # "key"
      => LET key == Decoded(event[r].key)
             wanted == /\ endswith(lower(key), DotPdf)
                       /\ ~ startswith(lower(key), lower(THUMBNAIL_PREFIX))
             l == loc[r]
         IN /\ should_process_event(event[r]) <=> wanted
            /\ ~ wanted <=>
                 result[r] = Return(200, TextBody("Skipped non-PDF or thumbnail"))
            /\ "source_object_key" \in l.bound => l.source_object_key = key
            /\ "download_path" \in l.bound
                 => l.download_path = TmpDir \o basename(key)
            /\ "thumbnail_key" \in l.bound
                 => l.thumbnail_key =
                      THUMBNAIL_PREFIX \o WithoutExtension(basename(key)) \o DotPng

\* an event of the detail shape has been processed, and a run on the key
\* 'a%2Fx.pdf' of the Records shape has named its thumbnail
C16_Witness ==
  \E r, q \in Runs :
    /\ event[r].shape = "detail" /\ Succeeded(r)
    /\ event[q].shape = "Records" /\ event[q].key = KeyAXEnc
    /\ "thumbnail_key" \in loc[q].bound

(***************************************************************************)
(* C17  The document handle                                                *)
(***************************************************************************)
\* C17: a run that opened the document has closed it (doc.close() has been
\* called) in every state after its render step, its terminal state included.
C17_HandleClosed ==
  \A r \in Runs :
    pc[r] # "render" /\ Did(r, "fitz.open") => Did(r, "doc.close")

(***************************************************************************)
(* C18  Each step once, in order, and every run ends                       *)
(***************************************************************************)
\* lambda_handler runs to its end once called: every step that can be taken
\* is taken in the end
SpecFair == Init /\ [][Next]_vars /\ WF_vars(Next)

\* the place of a call in the order download, render, put_object, put_item
\* (the render step is lines 80-98: open, rasterize, resize); 0 for the other
\* calls
StepRank(op) ==
  CASE op = "download_file" -> 1
    [] op \in {"fitz.open", "get_pixmap", "thumbnail"} -> 2
    [] op = "put_object" -> 3
    [] op = "put_item" -> 4
    [] OTHER -> 0

\* in the trace of run r the steps come in order, a step's calls are made
\* once, and no call of a step follows a failed call of a step
InOrder(r) ==
  \A i, j \in DOMAIN trace[r] :
    LET a == trace[r][i]
        b == trace[r][j]
    IN i < j /\ StepRank(a[1]) > 0 /\ StepRank(b[1]) > 0
         => /\ a[2]
            /\ StepRank(a[1]) <= StepRank(b[1])
            /\ a[1] # b[1]

\* C18: in every state each run has made the calls of download, render,
\* put_object and put_item at most once each, in that order, and none after
\* one of them failed; and every run that has been invoked ends.
C18_OnceInOrder ==
  /\ [](\A r \in Runs : InOrder(r))
  /\ \A r \in Runs : [](pc[r] # "idle" => <>Done(r))

\* one run has ended after all four steps, another after a failed put_object
C18_Witness ==
  \E r, q \in Runs :
    /\ Done(r) /\ Did(r, "put_item")
    /\ Done(q) /\ Failed(q, "put_object") /\ ~ Attempted(q, "put_item")

(***************************************************************************)
(* C19  A record's thumbnail shows the record's document                   *)
(***************************************************************************)
\* C19: in every state, the object at the thumbnail_path of every record was
\* rendered from the source object the record's original_file names.
C19_ThumbnailOfOriginal ==
  \A id \in DOMAIN table :
    LET thumb == Named(table[id].thumbnail_path)
    IN /\ thumb \in DOMAIN s3
       /\ s3[thumb].Body.of = Named(table[id].original_file)

====
